---- MODULE Spec2Model ----
(***************************************************************************)
(* Model of the Arcads audio pipeline (src/src/__init__.py,                *)
(* src/src/utils.py, src/src/tts_service.py, src/src/audio_refiner.py).    *)
(*                                                                         *)
(* One invocation of generate_refined_audio is a sequence of steps; the    *)
(* variable pc holds the position of the invocation inside the function.   *)
(* Everything outside the repository (the file system, the ElevenLabs      *)
(* service, pydub's decoder, noisereduce, soundfile) is a nondeterministic *)
(* choice over its possible outcomes: a value or a raised exception.       *)
(*                                                                         *)
(* Three specifications:                                                   *)
(*   Spec         one invocation of generate_refined_audio, step by step,  *)
(*                on a machine that has ffmpeg on its search path          *)
(*   FnSpec       one call of normalize_volume, enhance_voice or           *)
(*                save_refined on an input drawn from bounded sets         *)
(*   ProcessSpec  two concurrent invocations in one process, on any        *)
(*                machine, cut at their accesses to what they share        *)
(*                                                                         *)
(* Python values:                                                          *)
(*   None / a value      -> None == <<>> / Some(v) == <<v>>                *)
(*   dict                -> record with the same keys                      *)
(*   float sample        -> integer, in units of 1/Scale                   *)
(*   str (text input)    -> its decomposition into leading whitespace,     *)
(*                          core and trailing whitespace                   *)
(***************************************************************************)
EXTENDS Integers, Sequences, FiniteSets, TLC

VARIABLES
    pc,             \* position of the invocation in generate_refined_audio
    text,           \* the text argument (rebound to the stripped text by line 59)
    voice_id,       \* the voice_id argument (None or a voice)
    output_name,    \* the output_name argument (None or a name; rebound at line 69)
    config,         \* None, or the loaded configuration
    api_key,        \* None, or the key returned by load_env_variables
    files,          \* the file system: a set of [path, content] entries
    log,            \* every external effect of the invocation, in order
    audio_bytes,    \* None, or the bytes returned by the TTS service
    tts_result,     \* None, or the dict returned by generate_and_save
    loaded,         \* None, or the (audio_array, sample_rate) pair of load_audio
    audio_data,     \* the local audio_data of process_pipeline
    degraded,       \* the stages whose internal processing raised
    save_result,    \* None, or the dict returned by save_refined
    refine_result,  \* None, or the dict returned by process_pipeline
    result,         \* None, or the dict returned by generate_refined_audio
    escaped,        \* an exception left generate_refined_audio
    fin,            \* input of the function under test (function specifications)
    fout,           \* None, or the output of the function under test
    install,        \* the machine: where ffmpeg is installed and configured
    env_path,       \* os.environ["PATH"] of the process, a sequence of directories
    converter,      \* AudioSegment.converter, a class attribute of pydub
    clock,          \* the second shown by datetime.now() (process specification)
    calls           \* the invocations running in the process (process specification)

vars == << pc, text, voice_id, output_name, config, api_key, files, log,
           audio_bytes, tts_result, loaded, audio_data, degraded, save_result,
           refine_result, result, escaped, fin, fout, install, env_path,
           converter, clock, calls >>

\* the state of the process outside the invocation
envVars == << install, env_path, converter >>
processVars == << clock, calls >>

None == <<>>
Some(v) == <<v>>

-----------------------------------------------------------------------------
(* Bounds of the model. *)

\* longest run of whitespace before or after the core of a text
MaxPad == 1
\* longest decoded buffer in the pipeline specification
MaxBufLen == 2
\* longest buffer in the specifications of the signal functions
MaxFnLen == 3
\* longest buffer in the specification of save_refined's resampling
MaxResampleLen == 6

-----------------------------------------------------------------------------
(* Amplitudes.  A sample of amplitude 1.0 is the integer Scale. *)

Scale == 1000

Abs(x) == IF x < 0 THEN -x ELSE x
Sign(x) == IF x < 0 THEN -1 ELSE IF x > 0 THEN 1 ELSE 0

\* x / y rounded toward zero, for y > 0
QuotZ(x, y) == Sign(x) * (Abs(x) \div y)

RECURSIVE SumSq(_)
SumSq(s) == IF s = <<>> THEN 0 ELSE Head(s) * Head(s) + SumSq(Tail(s))

RECURSIVE MaxAbs(_)
MaxAbs(s) ==
    IF s = <<>> THEN 0
    ELSE LET m == MaxAbs(Tail(s)) IN IF Abs(Head(s)) > m THEN Abs(Head(s)) ELSE m

\* floor of the square root, by bisection: lo * lo <= n < hi * hi
RECURSIVE Bisect(_, _, _)
Bisect(n, lo, hi) ==
    IF hi - lo <= 1 THEN lo
    ELSE LET mid == (lo + hi) \div 2 IN
         IF mid * mid <= n THEN Bisect(n, mid, hi) ELSE Bisect(n, lo, mid)
ISqrt(n) == Bisect(n, 0, 40000)

-----------------------------------------------------------------------------
(* Text input: src/src/utils.py *)

MinLength == 1
MaxLength == 5000

Pads == 0..MaxPad
CoreLens == {0, MinLength, MaxLength, MaxLength + 1}

\* A str is lead whitespace characters, then a core of `core` characters that
\* neither starts nor ends with whitespace, then trail whitespace characters.
\* With core = 0 the whole string is whitespace and is counted in lead.
StrTexts ==
    { [kind |-> "str", lead |-> l, core |-> c, trail |-> t] :
        l \in Pads, c \in CoreLens, t \in Pads } \
    { s \in [kind : {"str"}, lead : Pads, core : {0}, trail : Pads] : s.trail > 0 }

\* None, and a non-string that is not falsy (a number, a list)
NonStrTexts == { [kind |-> "none"], [kind |-> "object"] }

Texts == StrTexts \cup NonStrTexts

IsStr(t) == t.kind = "str"
StrLen(t) == t.lead + t.core + t.trail
\* Python truth value of the argument
Truthy(t) ==
    CASE t.kind = "str" -> StrLen(t) > 0
      [] t.kind = "none" -> FALSE
      [] OTHER -> TRUE
\* str.strip()
Strip(t) == [kind |-> "str", lead |-> 0, core |-> t.core, trail |-> 0]

\* the outcome of a call: an exception (an instance of Exception) or a value
Raise(msg) == [raised |-> TRUE, msg |-> msg]
Return(v) == [raised |-> FALSE, value |-> v]

\* the length checks applied to the text as given, before strip()
validate_text_input_NoStrip(t) ==
    IF ~Truthy(t) \/ ~IsStr(t) THEN Raise("Text must be a non-empty string")
    ELSE IF StrLen(t) < MinLength THEN Raise("Text too short. Minimum 1 characters required")
    ELSE IF StrLen(t) > MaxLength THEN Raise("Text too long. Maximum 5000 characters allowed")
    ELSE Return(Strip(t))

validate_text_input(t) ==
    IF ~Truthy(t) \/ ~IsStr(t) THEN Raise("Text must be a non-empty string")
    ELSE LET s == Strip(t) IN
         IF StrLen(s) < MinLength THEN Raise("Text too short. Minimum 1 characters required")
         ELSE IF StrLen(s) > MaxLength THEN Raise("Text too long. Maximum 5000 characters allowed")
         ELSE Return(s)

-----------------------------------------------------------------------------
(* Signal functions: src/src/audio_refiner.py.  Each takes the relevant part *)
(* of refinement_config and the outcome of the library code it calls.        *)

\* 10 ** (db / 20), in units of 1/Scale, for the levels a configuration uses
DbToLin(db) ==
    CASE db = -18 -> 126
      [] db = -6  -> 501
      [] db = -3  -> 708

\* the clipping ceiling 0.95, the compressor's threshold 0.3 and ratio 3.0
Ceiling == 950
Threshold == 300
Ratio == 3

\* np.sqrt(np.mean(audio_data**2)), in units of 1/(10 * Scale)
Rms10(audio) == ISqrt((100 * SumSq(audio)) \div Len(audio))

\* the gain computed from the peak instead of the RMS
ApplyGain_FromPeak(audio, target_db) ==
    [i \in 1..Len(audio) |-> QuotZ(audio[i] * DbToLin(target_db), MaxAbs(audio))]

\* audio_data * gain_linear, where
\*   gain_linear = 10 ** ((target_db - 20 * log10(rms)) / 20) = 10 ** (target_db / 20) / rms
ApplyGain(audio, target_db) ==
    [i \in 1..Len(audio) |-> QuotZ(audio[i] * DbToLin(target_db) * 10, Rms10(audio))]

\* samples above the ceiling are clipped one by one
PreventClipping_PerSample(normalized) ==
    [i \in 1..Len(normalized) |->
        IF Abs(normalized[i]) > Ceiling THEN Sign(normalized[i]) * Ceiling
        ELSE normalized[i]]

\* lines 178-181: uniform rescale when the peak exceeds the ceiling
PreventClipping(normalized) ==
    LET max_val == MaxAbs(normalized) IN
    IF max_val > Ceiling
    THEN [i \in 1..Len(normalized) |-> QuotZ(normalized[i] * Ceiling, max_val)]
    ELSE normalized

\* nr: the outcome of nr.reduce_noise (Raise(..) or Return(buffer))
reduce_noise(audio, cfg, nr) ==
    IF ~cfg.noise_reduction THEN audio
    ELSE IF nr.raised THEN audio
    ELSE nr.value

\* the except branch returns the gained buffer instead of the input
normalize_volume_KeepsPartial(audio, cfg, exc) ==
    IF ~cfg.normalization THEN audio
    ELSE IF Len(audio) = 0 \/ SumSq(audio) = 0 THEN audio
    ELSE IF exc THEN ApplyGain(audio, cfg.target_db)
    ELSE PreventClipping(ApplyGain(audio, cfg.target_db))

\* the enabled flag is not consulted
normalize_volume_AlwaysOn(audio, cfg, exc) ==
    IF exc \/ Len(audio) = 0 THEN audio
    ELSE IF SumSq(audio) = 0 THEN audio
    ELSE PreventClipping(ApplyGain(audio, cfg.target_db))

\* the test of lines 164-166 is missing: rms = 0 gives an infinite gain without
\* raising, and 0 * inf makes every sample not-a-number (shown as -999999)
normalize_volume_NoSilenceTest(audio, cfg, exc) ==
    IF ~cfg.normalization THEN audio
    ELSE IF exc \/ Len(audio) = 0 THEN audio
    ELSE IF SumSq(audio) = 0 THEN [i \in 1..Len(audio) |-> -999999]
    ELSE PreventClipping(ApplyGain(audio, cfg.target_db))

\* exc: numpy raised inside the try block.  np.max of an empty array raises
\* ValueError, so an empty buffer always takes the except branch.
normalize_volume(audio, cfg, exc) ==
    IF ~cfg.normalization THEN audio
    ELSE IF exc \/ Len(audio) = 0 THEN audio
    ELSE IF SumSq(audio) = 0 THEN audio
    ELSE PreventClipping(ApplyGain(audio, cfg.target_db))

\* the compressed magnitude without np.sign
Compress_LosesSign(x) ==
    IF Abs(x) > Threshold
    THEN Threshold + (Abs(x) - Threshold) \div Ratio
    ELSE x

\* lines 217-220, one sample
Compress(x) ==
    IF Abs(x) > Threshold
    THEN Sign(x) * (Threshold + (Abs(x) - Threshold) \div Ratio)
    ELSE x

enhance_voice(audio, cfg, exc) ==
    IF ~(cfg.compression \/ cfg.eq_boost) THEN audio
    ELSE IF exc THEN audio
    ELSE IF cfg.compression THEN [i \in 1..Len(audio) |-> Compress(audio[i])]
    ELSE audio

\* round() in place of int()
num_samples_Rounded(len, target_sr, sample_rate) ==
    (2 * len * target_sr + sample_rate) \div (2 * sample_rate)

\* line 259: int(len(audio_data) * target_sr / sample_rate)
num_samples(len, target_sr, sample_rate) == (len * target_sr) \div sample_rate

\* lines 264-269
Subtype(bit_depth) ==
    IF bit_depth = 16 THEN "PCM_16"
    ELSE IF bit_depth = 24 THEN "PCM_24"
    ELSE "PCM_32"

-----------------------------------------------------------------------------
(* The environment of one invocation. *)

\* the configurations load_config can return (every recognised option present)
Configs ==
    [ noise_reduction : BOOLEAN,          \* audio_refinement.noise_reduction.enabled
      normalization   : BOOLEAN,          \* audio_refinement.normalization.enabled
      target_db       : {-18},            \* audio_refinement.normalization.target_db
      compression     : BOOLEAN,          \* audio_refinement.enhancement.compression
      eq_boost        : BOOLEAN,          \* audio_refinement.enhancement.eq_boost
      sample_rate     : {16000, 44100},   \* audio_refinement.output.sample_rate
      bit_depth       : {16, 24, 32} ]    \* audio_refinement.output.bit_depth

DefaultVoice == "default_voice_id"
Voices == {None, Some("pNInz6obpgDQGcFmaJgB")}
OutputNames == {None, Some("test_ad_script")}
\* datetime.now().strftime('%Y%m%d_%H%M%S')
Timestamps == {"20261105_112300"}

\* sample values of decoded audio, in units of 1/Scale
PipelineSamples == {-1000, 0}
RECURSIVE SeqsUpTo(_, _)
SeqsUpTo(S, n) ==
    IF n = 0 THEN {<<>>}
    ELSE LET shorter == SeqsUpTo(S, n - 1) IN
         shorter \cup { Append(q, x) : q \in { r \in shorter : Len(r) = n - 1 }, x \in S }
SeqsOfLen(S, n) == { q \in SeqsUpTo(S, n) : Len(q) = n }
PipelineBuffers == SeqsUpTo(PipelineSamples, MaxBufLen)
\* frame rates of decoded audio
SourceRates == {22050, 44100}

\* the machines the process can run on
Installations ==
    { m \in [ ffmpeg_path       : {None, Some("/opt/ffmpeg/bin/ffmpeg")},
              path_exists       : BOOLEAN,
              on_path           : BOOLEAN,
              common_dir        : {None, Some("C:\\ffmpeg\\bin")},
              common_has_ffmpeg : BOOLEAN ] :
        /\ m.ffmpeg_path = None => ~m.path_exists
        /\ m.common_dir = None => ~m.common_has_ffmpeg }
\*   ffmpeg_path        config['paths']['ffmpeg'], None when not configured
\*   path_exists        os.path.exists(ffmpeg_path)
\*   on_path            a directory of the initial PATH holds ffmpeg
\*   common_dir         the first of possible_paths that exists, None when none does
\*   common_has_ffmpeg  that directory holds an ffmpeg executable

\* a machine with ffmpeg installed on the search path and nothing configured
PathInstall ==
    [ ffmpeg_path |-> None, path_exists |-> FALSE, on_path |-> TRUE,
      common_dir |-> None, common_has_ffmpeg |-> FALSE ]

\* os.environ["PATH"] and AudioSegment.converter when the process starts
InitialPath == << "/usr/bin" >>
DefaultConverter == "ffmpeg"

\* os.path.dirname
Dirname(p) == CASE p = "/opt/ffmpeg/bin/ffmpeg" -> "/opt/ffmpeg/bin"

\* shutil.which("ffmpeg") is not None
Which(inst, path) ==
    \/ inst.on_path
    \/ /\ inst.ffmpeg_path # None /\ inst.path_exists
       /\ \E k \in 1..Len(path) : path[k] = Dirname(inst.ffmpeg_path[1])
    \/ /\ inst.common_dir # None /\ inst.common_has_ffmpeg
       /\ \E k \in 1..Len(path) : path[k] = inst.common_dir[1]

\* audio_refiner.py lines 34-69: the PATH and the converter that
\* _configure_ffmpeg leaves behind
configure_ffmpeg(inst, path, conv) ==
    IF inst.ffmpeg_path # None /\ inst.path_exists
    THEN [ PATH      |-> Append(path, Dirname(inst.ffmpeg_path[1])),
           converter |-> inst.ffmpeg_path[1] ]
    ELSE IF Which(inst, path)
    THEN [ PATH |-> path, converter |-> conv ]
    ELSE IF inst.common_dir # None
    THEN [ PATH |-> Append(path, inst.common_dir[1]), converter |-> conv ]
    ELSE [ PATH |-> path, converter |-> conv ]

RawPath(cfg, name) == "raw_audio/" \o name \o ".mp3"
RefinedPath(cfg, name) == "refined_audio/" \o name \o ".wav"

\* open(path, 'wb').write(..) / sf.write(path, ..): the file is replaced
WriteFile(fs, path, content) ==
    { f \in fs : f.path # path } \cup { [path |-> path, content |-> content] }
Exists(fs, path) == \E f \in fs : f.path = path

Event(op) == [op |-> op]
\* a refinement stage was called with buffer `input` and returned `output`;
\* failed: its internal processing raised (the except branch ran)
StageEvent(op, input, output, failed) ==
    [op |-> op, input |-> input, output |-> output, failed |-> failed]
WriteEvent(path) == [op |-> "write", path |-> path]

-----------------------------------------------------------------------------
(* generate_refined_audio: src/src/__init__.py *)

\* lines 143-153: the except clause
FailureRecord(e) ==
    [ success       |-> FALSE,
      raw_audio     |-> None,
      refined_audio |-> None,
      metadata      |-> None,
      error         |-> Some("Pipeline failed: " \o e) ]

\* the success record without the sample rate of the refined file
SuccessRecord_NoSampleRate(txt, raw_path, refined_path, tts, refine) ==
    [ success       |-> TRUE,
      raw_audio     |-> Some(raw_path),
      refined_audio |-> Some(refined_path),
      metadata      |-> Some(
        [ text            |-> txt,
          text_length     |-> StrLen(txt),
          voice_id        |-> tts.metadata[1].voice_id,
          generation_time |-> tts.metadata[1].generation_time,
          refinement_time |-> refine.metadata[1].processing_time,
          total_time      |-> "time.time() - pipeline_start",
          raw_size_mb     |-> <<"mb", tts.metadata[1].file_size>>,
          refined_size_mb |-> <<"mb", refine.metadata[1].file_size>>,
          duration        |-> refine.metadata[1].output_duration ]),
      error         |-> None ]

\* the raw_audio entry filled with the refined path
SuccessRecord_SamePath(txt, raw_path, refined_path, tts, refine) ==
    [ success       |-> TRUE,
      raw_audio     |-> Some(refined_path),
      refined_audio |-> Some(refined_path),
      metadata      |-> Some(
        [ text            |-> txt,
          text_length     |-> StrLen(txt),
          voice_id        |-> tts.metadata[1].voice_id,
          generation_time |-> tts.metadata[1].generation_time,
          refinement_time |-> refine.metadata[1].processing_time,
          total_time      |-> "time.time() - pipeline_start",
          raw_size_mb     |-> <<"mb", tts.metadata[1].file_size>>,
          refined_size_mb |-> <<"mb", refine.metadata[1].file_size>>,
          duration        |-> refine.metadata[1].output_duration,
          sample_rate     |-> refine.metadata[1].sample_rate ]),
      error         |-> None ]

\* lines 124-141
SuccessRecord(txt, raw_audio_path, refined_audio_path, tts, refine) ==
    [ success       |-> TRUE,
      raw_audio     |-> Some(raw_audio_path),
      refined_audio |-> Some(refined_audio_path),
      metadata      |-> Some(
        [ text            |-> txt,
          text_length     |-> StrLen(txt),
          voice_id        |-> tts.metadata[1].voice_id,
          generation_time |-> tts.metadata[1].generation_time,
          refinement_time |-> refine.metadata[1].processing_time,
          total_time      |-> "time.time() - pipeline_start",
          raw_size_mb     |-> <<"mb", tts.metadata[1].file_size>>,
          refined_size_mb |-> <<"mb", refine.metadata[1].file_size>>,
          duration        |-> refine.metadata[1].output_duration,
          sample_rate     |-> refine.metadata[1].sample_rate ]),
      error         |-> None ]

\* the exception is not handled and leaves generate_refined_audio
Throw_Propagates(e) ==
    /\ result' = None
    /\ escaped' = TRUE
    /\ pc' = "done"

\* an exception raised at a step of the try block (lines 45-141) reaches line 143
Throw(e) ==
    /\ result' = Some(FailureRecord(e))
    /\ escaped' = FALSE
    /\ pc' = "done"

Init ==
    /\ pc = "load_config"
    /\ text \in Texts
    /\ voice_id \in Voices
    /\ output_name \in OutputNames
    /\ config = None
    /\ api_key = None
    /\ files = {}
    /\ log = <<>>
    /\ audio_bytes = None
    /\ tts_result = None
    /\ loaded = None
    /\ audio_data = <<>>
    /\ degraded = {}
    /\ save_result = None
    /\ refine_result = None
    /\ result = None
    /\ escaped = FALSE
    /\ fin = None
    /\ fout = None
    /\ install = PathInstall
    /\ env_path = InitialPath
    /\ converter = DefaultConverter
    /\ clock = 1
    /\ calls = << >>

\* line 47: load_config
LoadConfig ==
    /\ pc = "load_config"
    /\ \/ \E c \in Configs :
            /\ config' = Some(c)
            /\ pc' = "setup_logging"
            /\ UNCHANGED << result, escaped >>
       \/ /\ Throw("Config file not found: config/config.yaml")
          /\ UNCHANGED config
    /\ UNCHANGED << text, voice_id, output_name, api_key, files, log, audio_bytes,
                    tts_result, loaded, audio_data, degraded, save_result,
                    refine_result, fin, fout, envVars, processVars >>

\* line 50: setup_logging (logging.FileHandler opens the log file)
SetupLogging ==
    /\ pc = "setup_logging"
    /\ \/ /\ pc' = "setup_directories"
          /\ UNCHANGED << result, escaped >>
       \/ Throw("[Errno 2] No such file or directory: 'logs/audio_pipeline.log'")
    /\ UNCHANGED << text, voice_id, output_name, config, api_key, files, log,
                    audio_bytes, tts_result, loaded, audio_data, degraded,
                    save_result, refine_result, fin, fout, envVars, processVars >>

\* line 53: setup_directories
SetupDirectories ==
    /\ pc = "setup_directories"
    /\ \/ /\ pc' = "load_env"
          /\ UNCHANGED << result, escaped >>
       \/ Throw("[Errno 13] Permission denied: 'raw_audio'")
    /\ UNCHANGED << text, voice_id, output_name, config, api_key, files, log,
                    audio_bytes, tts_result, loaded, audio_data, degraded,
                    save_result, refine_result, fin, fout, envVars, processVars >>

\* line 56: load_env_variables
LoadEnv ==
    /\ pc = "load_env"
    /\ \/ /\ api_key' = Some("ELEVENLABS_API_KEY")
          /\ pc' = "validate_text"
          /\ UNCHANGED << result, escaped >>
       \/ /\ Throw("ELEVENLABS_API_KEY not found in environment variables. "
                   \o "Please create a .env file with your API key.")
          /\ UNCHANGED api_key
    /\ UNCHANGED << text, voice_id, output_name, config, files, log, audio_bytes,
                    tts_result, loaded, audio_data, degraded, save_result,
                    refine_result, fin, fout, envVars, processVars >>

\* line 59: text = validate_text_input(text)
ValidateText ==
    /\ pc = "validate_text"
    /\ LET r == validate_text_input(text) IN
       IF r.raised
       THEN Throw(r.msg) /\ UNCHANGED text
       ELSE /\ text' = r.value
            /\ pc' = "filenames"
            /\ UNCHANGED << result, escaped >>
    /\ UNCHANGED << voice_id, output_name, config, api_key, files, log, audio_bytes,
                    tts_result, loaded, audio_data, degraded, save_result,
                    refine_result, fin, fout, envVars, processVars >>

\* lines 66-69: the default output name
GenerateFilenames ==
    /\ pc = "filenames"
    /\ IF output_name = None
       THEN \E ts \in Timestamps : output_name' = Some("audio_" \o ts)
       ELSE UNCHANGED output_name
    /\ pc' = "tts_init"
    /\ UNCHANGED << text, voice_id, config, api_key, files, log, audio_bytes,
                    tts_result, loaded, audio_data, degraded, save_result,
                    refine_result, result, escaped, fin, fout, envVars, processVars >>

raw_audio_path == RawPath(config[1], output_name[1])
refined_audio_path == RefinedPath(config[1], output_name[1])

-----------------------------------------------------------------------------
(* ElevenLabsTTS: src/src/tts_service.py *)

\* lines 137-145
GenerateFailure(e) ==
    [ success |-> FALSE, audio_data |-> None, metadata |-> None,
      error |-> Some("Error generating audio: " \o e) ]

\* lines 178-186
SaveAudioFailure(e) ==
    [ success |-> FALSE, file_path |-> None, file_size |-> 0,
      error |-> Some("Error saving audio: " \o e) ]

\* lines 214-223, with the metadata of lines 128-133
GenerateAndSaveSuccess(txt, voice, bytes, path) ==
    [ success   |-> TRUE,
      file_path |-> Some(path),
      metadata  |-> Some(
        [ voice_id        |-> IF voice = None THEN DefaultVoice ELSE voice[1],
          text_length     |-> StrLen(txt),
          generation_time |-> "time.time() - start_time",
          audio_size      |-> <<"len", bytes>>,
          file_size       |-> <<"getsize", path>>,
          output_path     |-> path ]),
      error     |-> None ]

\* __init__.py line 83: ElevenLabsTTS(api_key, config)
InitTTS ==
    /\ pc = "tts_init"
    /\ \/ /\ pc' = "validate_api_key"
          /\ UNCHANGED << result, escaped >>
       \/ Throw("'elevenlabs'")
    /\ UNCHANGED << text, voice_id, output_name, config, api_key, files, log,
                    audio_bytes, tts_result, loaded, audio_data, degraded,
                    save_result, refine_result, fin, fout, envVars, processVars >>

\* the value validate_api_key returns is not tested
ValidateApiKey_ResultIgnored ==
    /\ pc = "validate_api_key"
    /\ \E valid \in BOOLEAN :
          /\ log' = Append(log, [op |-> "voices.get_all", valid |-> valid])
          /\ pc' = "generate_audio"
          /\ UNCHANGED << result, escaped >>
    /\ UNCHANGED << text, voice_id, output_name, config, api_key, files,
                    audio_bytes, tts_result, loaded, audio_data, degraded,
                    save_result, refine_result, fin, fout, envVars, processVars >>

\* __init__.py lines 86-87 and tts_service.py lines 38-52: validate_api_key
\* valid: what validate_api_key returns (False when voices.get_all raised)
ValidateApiKey ==
    /\ pc = "validate_api_key"
    /\ \E valid \in BOOLEAN :
          /\ log' = Append(log, [op |-> "voices.get_all", valid |-> valid])
          /\ IF valid
             THEN pc' = "generate_audio" /\ UNCHANGED << result, escaped >>
             ELSE Throw("Invalid ElevenLabs API key")
    /\ UNCHANGED << text, voice_id, output_name, config, api_key, files,
                    audio_bytes, tts_result, loaded, audio_data, degraded,
                    save_result, refine_result, fin, fout, envVars, processVars >>

\* a failed request is made again
GenerateAudio_Retries ==
    /\ pc = "generate_audio"
    /\ log' = Append(log, Event("text_to_speech.convert"))
    /\ \/ /\ audio_bytes' = Some("mp3 bytes")
          /\ pc' = "save_audio"
       \/ UNCHANGED << audio_bytes, pc >>
    /\ UNCHANGED << text, voice_id, output_name, config, api_key, files, loaded,
                    audio_data, degraded, save_result, refine_result, fin, fout,
                    tts_result, result, escaped, envVars, processVars >>

\* tts_service.py lines 202-205 and 78-145: generate_audio, called once
GenerateAudio ==
    /\ pc = "generate_audio"
    /\ log' = Append(log, Event("text_to_speech.convert"))
    /\ \/ /\ audio_bytes' = Some("mp3 bytes")
          /\ pc' = "save_audio"
          /\ UNCHANGED << tts_result, result, escaped >>
       \/ /\ LET r == GenerateFailure("status_code: 401") IN
             /\ tts_result' = Some(r)
             /\ Throw("TTS generation failed: " \o r.error[1])
          /\ UNCHANGED audio_bytes
    /\ UNCHANGED << text, voice_id, output_name, config, api_key, files, loaded,
                    audio_data, degraded, save_result, refine_result, fin, fout, envVars, processVars >>

\* tts_service.py lines 208-223 and 147-186: save_audio; __init__.py lines 96-97
SaveAudio ==
    /\ pc = "save_audio"
    /\ \/ /\ files' = WriteFile(files, raw_audio_path, [kind |-> "mp3", bytes |-> audio_bytes[1]])
          /\ log' = Append(log, WriteEvent(raw_audio_path))
          /\ tts_result' = Some(GenerateAndSaveSuccess(text, voice_id, audio_bytes[1],
                                                       raw_audio_path))
          /\ pc' = "refiner_init"
          /\ UNCHANGED << result, escaped >>
       \/ /\ LET r == SaveAudioFailure("[Errno 28] No space left on device") IN
             /\ tts_result' = Some(r)
             /\ Throw("TTS generation failed: " \o r.error[1])
          /\ UNCHANGED << files, log >>
    /\ UNCHANGED << text, voice_id, output_name, config, api_key, audio_bytes,
                    loaded, audio_data, degraded, save_result, refine_result,
                    fin, fout, envVars, processVars >>

-----------------------------------------------------------------------------
(* AudioRefiner.process_pipeline: src/src/audio_refiner.py *)

cfg == config[1]
sample_rate == loaded[1].sample_rate

\* lines 356-364
RefineFailure(e) ==
    [ success |-> FALSE, refined_audio_path |-> None, metadata |-> None,
      error |-> Some("Refinement pipeline failed: " \o e) ]

\* lines 293-302
SaveRefinedFailure(e) ==
    [ success |-> FALSE, file_path |-> None, file_size |-> 0, duration |-> 0,
      error |-> Some("Error saving refined audio: " \o e) ]

\* the metadata without the processing time
RefineSuccess_Untimed(saved, input_duration) ==
    [ success            |-> TRUE,
      refined_audio_path |-> saved.file_path,
      metadata           |-> Some(
        [ input_duration  |-> input_duration,
          output_duration |-> saved.duration,
          sample_rate     |-> saved.sample_rate,
          file_size       |-> saved.file_size ]),
      error              |-> None ]

\* lines 343-354
RefineSuccess(saved, input_duration) ==
    [ success            |-> TRUE,
      refined_audio_path |-> saved.file_path,
      metadata           |-> Some(
        [ input_duration  |-> input_duration,
          output_duration |-> saved.duration,
          sample_rate     |-> saved.sample_rate,
          processing_time |-> "time.time() - start_time",
          file_size       |-> saved.file_size ]),
      error              |-> None ]

\* process_pipeline returns r to __init__.py line 105; lines 110-111 raise on failure
ReturnRefine(r) ==
    /\ refine_result' = Some(r)
    /\ IF r.success
       THEN pc' = "return" /\ UNCHANGED << result, escaped >>
       ELSE Throw("Audio refinement failed: " \o r.error[1])

\* __init__.py line 103: AudioRefiner(config); audio_refiner.py lines 27-31
InitRefiner ==
    /\ pc = "refiner_init"
    /\ \/ /\ LET e == configure_ffmpeg(install, env_path, converter) IN
                env_path' = e.PATH /\ converter' = e.converter
          /\ pc' = "load_audio"
          /\ UNCHANGED << result, escaped >>
       \/ /\ Throw("'audio_refinement'")
          /\ UNCHANGED << env_path, converter >>
    /\ UNCHANGED << text, voice_id, output_name, config, api_key, files, log,
                    audio_bytes, tts_result, loaded, audio_data, degraded,
                    save_result, refine_result, fin, fout, install, processVars >>

\* lines 320-322 and 71-104: load_audio decodes the raw file
LoadAudio ==
    /\ pc = "load_audio"
    /\ log' = Append(log, Event("load_audio"))
    /\ \/ \E b \in PipelineBuffers, sr \in SourceRates :
            /\ loaded' = Some([audio_array |-> b, sample_rate |-> sr])
            /\ audio_data' = b
            /\ pc' = "reduce_noise"
            /\ UNCHANGED << refine_result, result, escaped >>
       \/ /\ ReturnRefine(RefineFailure("Decoding failed. ffmpeg returned error code: 1"))
          /\ UNCHANGED << loaded, audio_data >>
    /\ UNCHANGED << text, voice_id, output_name, config, api_key, files,
                    audio_bytes, tts_result, degraded, save_result, fin, fout, envVars, processVars >>

\* the outcomes of nr.reduce_noise on a buffer: an exception, or a buffer of
\* the same length
NoiseOutcomes(audio) ==
    { Raise("noisereduce failed") }
        \cup { Return(b) : b \in SeqsOfLen(PipelineSamples, Len(audio)) }

\* line 325
ReduceNoise ==
    /\ pc = "reduce_noise"
    /\ \E nr \in NoiseOutcomes(audio_data) :
          LET failed == cfg.noise_reduction /\ nr.raised IN
          /\ audio_data' = reduce_noise(audio_data, cfg, nr)
          /\ degraded' = IF failed THEN degraded \cup {"reduce_noise"} ELSE degraded
          /\ log' = Append(log, StageEvent("reduce_noise", audio_data, audio_data', failed))
    /\ pc' = "normalize_volume"
    /\ UNCHANGED << text, voice_id, output_name, config, api_key, files,
                    audio_bytes, tts_result, loaded, save_result, refine_result,
                    result, escaped, fin, fout, envVars, processVars >>

\* the normalized buffer goes straight to save_refined
NormalizeVolume_SkipsEnhance ==
    /\ pc = "normalize_volume"
    /\ \E exc \in BOOLEAN :
          LET failed == cfg.normalization /\ (exc \/ Len(audio_data) = 0) IN
          /\ audio_data' = normalize_volume(audio_data, cfg, exc)
          /\ degraded' = IF failed THEN degraded \cup {"normalize_volume"} ELSE degraded
          /\ log' = Append(log, StageEvent("normalize_volume", audio_data, audio_data',
                                           failed))
    /\ pc' = "save_refined"
    /\ UNCHANGED << text, voice_id, output_name, config, api_key, files,
                    audio_bytes, tts_result, loaded, save_result, refine_result,
                    result, escaped, fin, fout, envVars, processVars >>

\* line 328
NormalizeVolume ==
    /\ pc = "normalize_volume"
    /\ \E exc \in BOOLEAN :
          LET failed == cfg.normalization /\ (exc \/ Len(audio_data) = 0) IN
          /\ audio_data' = normalize_volume(audio_data, cfg, exc)
          /\ degraded' = IF failed THEN degraded \cup {"normalize_volume"} ELSE degraded
          /\ log' = Append(log, StageEvent("normalize_volume", audio_data, audio_data',
                                           failed))
    /\ pc' = "enhance_voice"
    /\ UNCHANGED << text, voice_id, output_name, config, api_key, files,
                    audio_bytes, tts_result, loaded, save_result, refine_result,
                    result, escaped, fin, fout, envVars, processVars >>

\* line 331
EnhanceVoice ==
    /\ pc = "enhance_voice"
    /\ \E exc \in BOOLEAN :
          LET failed == (cfg.compression \/ cfg.eq_boost) /\ exc IN
          /\ audio_data' = enhance_voice(audio_data, cfg, exc)
          /\ degraded' = IF failed THEN degraded \cup {"enhance_voice"} ELSE degraded
          /\ log' = Append(log, StageEvent("enhance_voice", audio_data, audio_data',
                                           failed))
    /\ pc' = "save_refined"
    /\ UNCHANGED << text, voice_id, output_name, config, api_key, files,
                    audio_bytes, tts_result, loaded, save_result, refine_result,
                    result, escaped, fin, fout, envVars, processVars >>

\* the outcomes of the library calls of save_refined: mkdir, signal.resample,
\* sf.write.  signal.resample is only called when the rates differ; what it
\* does with an empty input or with num = 0 is left open (either outcome).
SaveOutcomes(audio, sr, target_sr) ==
    {"ok", "write raises"}
        \cup IF sr # target_sr
                /\ (Len(audio) = 0 \/ num_samples(Len(audio), target_sr, sr) = 0)
             THEN {"resample raises"} ELSE {}

\* the buffer is written at the rate it was decoded at
save_refined_AtSourceRate(audio, sr, output_path, c, io) ==
    IF io = "ok"
    THEN [ written |-> Some([ kind        |-> "wav",
                              frames      |-> Len(audio),
                              sample_rate |-> sr,
                              subtype     |-> Subtype(c.bit_depth),
                              resampled   |-> FALSE,
                              source      |-> audio ]),
           returned |-> [ success     |-> TRUE,
                          file_path   |-> Some(output_path),
                          file_size   |-> <<"getsize", output_path>>,
                          duration    |-> <<Len(audio), sr>>,
                          sample_rate |-> sr,
                          error       |-> None ] ]
    ELSE [ written |-> None, returned |-> SaveRefinedFailure(io) ]

\* lines 246-302: what save_refined writes (None when it raised before or in
\* sf.write) and what it returns
save_refined(audio, sr, output_path, c, io) ==
    LET target_sr == c.sample_rate
        resampling == sr # target_sr
        frames == IF resampling THEN num_samples(Len(audio), target_sr, sr)
                  ELSE Len(audio)
        out_rate == IF resampling THEN target_sr ELSE sr
    IN  IF io = "ok"
        THEN [ written |-> Some([ kind        |-> "wav",
                                  frames      |-> frames,
                                  sample_rate |-> out_rate,
                                  subtype     |-> Subtype(c.bit_depth),
                                  resampled   |-> resampling,
                                  source      |-> audio ]),
               returned |-> [ success     |-> TRUE,
                              file_path   |-> Some(output_path),
                              file_size   |-> <<"getsize", output_path>>,
                              duration    |-> <<frames, out_rate>>,
                              sample_rate |-> out_rate,
                              error       |-> None ] ]
        ELSE [ written |-> None, returned |-> SaveRefinedFailure(io) ]

\* lines 334-354
SaveRefined ==
    /\ pc = "save_refined"
    /\ \E io \in SaveOutcomes(audio_data, sample_rate, cfg.sample_rate) :
         LET s == save_refined(audio_data, sample_rate, refined_audio_path, cfg, io) IN
         /\ save_result' = Some(s.returned)
         /\ log' = Append(log, [op |-> "save_refined", audio_data |-> audio_data,
                                sample_rate |-> sample_rate])
                       \o (IF s.written # None THEN << WriteEvent(refined_audio_path) >>
                           ELSE << >>)
         /\ files' = IF s.written # None
                     THEN WriteFile(files, refined_audio_path, s.written[1])
                     ELSE files
         /\ IF s.returned.success
            THEN ReturnRefine(RefineSuccess(s.returned,
                                 << Len(loaded[1].audio_array), sample_rate >>))
            ELSE ReturnRefine(s.returned)
    /\ UNCHANGED << text, voice_id, output_name, config, api_key, audio_bytes,
                    tts_result, loaded, audio_data, degraded, fin, fout, envVars, processVars >>

\* __init__.py lines 113-141
ReturnSuccess ==
    /\ pc = "return"
    /\ result' = Some(SuccessRecord(text, raw_audio_path, refined_audio_path,
                                    tts_result[1], refine_result[1]))
    /\ pc' = "done"
    /\ UNCHANGED << text, voice_id, output_name, config, api_key, files, log,
                    audio_bytes, tts_result, loaded, audio_data, degraded,
                    save_result, refine_result, escaped, fin, fout, envVars, processVars >>

Next ==
    \/ LoadConfig
    \/ SetupLogging
    \/ SetupDirectories
    \/ LoadEnv
    \/ ValidateText
    \/ GenerateFilenames
    \/ InitTTS
    \/ ValidateApiKey
    \/ GenerateAudio
    \/ SaveAudio
    \/ InitRefiner
    \/ LoadAudio
    \/ ReduceNoise
    \/ NormalizeVolume
    \/ EnhanceVoice
    \/ SaveRefined
    \/ ReturnSuccess

Spec == Init /\ [][Next]_vars

-----------------------------------------------------------------------------
(* Properties of the pipeline (specification Spec). *)

Done == pc = "done"
Returned == result # None
Succeeded == Returned /\ result[1].success

NetworkOps == {"voices.get_all", "text_to_speech.convert"}
NetworkCalls == { i \in 1..Len(log) : log[i].op \in NetworkOps }
\* position of the first write of path in the log, 0 when it was never written
WriteIndex(path) ==
    IF \E i \in 1..Len(log) : log[i] = WriteEvent(path)
    THEN CHOOSE i \in 1..Len(log) :
            /\ log[i] = WriteEvent(path)
            /\ \A j \in 1..(i - 1) : log[j] # WriteEvent(path)
    ELSE 0
StageOps == {"reduce_noise", "normalize_volume", "enhance_voice"}
StageEvents == { i \in 1..Len(log) : log[i].op \in StageOps }
SaveEvents == { i \in 1..Len(log) : log[i].op = "save_refined" }
\* the operations of process_pipeline that ran, in order
RefinerOps ==
    LET IsRefinerOp(e) == e.op \in StageOps \cup {"load_audio", "save_refined"}
        picked == SelectSeq(log, IsRefinerOp)
    IN  [i \in 1..Len(picked) |-> picked[i].op]

\* the text argument is not a string, or its trimmed length is 0 or above 5000
InvalidText(t) == ~IsStr(t) \/ t.core = 0 \/ t.core > 5000
ValidText(t) == IsStr(t) /\ t.core >= 1 /\ t.core <= 5000

\* C1: for a text whose trimmed length is 0 or greater than 5000 (the empty
\* string, whitespace only, a non-string), the invocation makes no call to the
\* TTS service at any point, and the record it returns has success = false.
C1_InvalidTextNoNetworkCall ==
    InvalidText(text) =>
        /\ NetworkCalls = {}
        /\ Done => Returned /\ ~result[1].success

\* an over-long text reached validate_text_input and was rejected by it
C1_Witness ==
    /\ Done
    /\ IsStr(text) /\ text.core > 5000
    /\ api_key # None
    /\ result = Some(FailureRecord("Text too long. Maximum 5000 characters allowed"))

\* C2: generate_refined_audio never raises; when any step fails the call
\* returns a record with success = false, a non-empty error string and
\* raw_audio, refined_audio and metadata all None.
C2_NeverRaises ==
    /\ ~escaped
    /\ Done => Returned
    /\ Succeeded =>
          /\ config # None /\ api_key # None
          /\ tts_result # None /\ tts_result[1].success
          /\ loaded # None
          /\ save_result # None /\ save_result[1].success
          /\ refine_result # None /\ refine_result[1].success
    /\ (Returned /\ ~result[1].success) =>
          /\ result[1].error # None
          /\ Len(result[1].error[1]) > 0
          /\ result[1].raw_audio = None
          /\ result[1].refined_audio = None
          /\ result[1].metadata = None

\* the refinement failed after the raw file was written
C2_Witness ==
    /\ Done /\ Returned /\ ~result[1].success
    /\ tts_result # None /\ tts_result[1].success
    /\ refine_result # None /\ ~refine_result[1].success

MetadataFields ==
    { "text_length", "voice_id", "generation_time", "refinement_time", "total_time",
      "raw_size_mb", "refined_size_mb", "duration", "sample_rate" }

\* C3 as stated: every returned record has the fields success, raw_audio_path,
\* refined_audio_path, metadata and error, and on success metadata has the
\* nine listed fields.
C3_FieldsAsStated ==
    Returned =>
        /\ {"success", "raw_audio_path", "refined_audio_path", "metadata", "error"}
              \subseteq DOMAIN result[1]
        /\ result[1].success => MetadataFields \subseteq DOMAIN result[1].metadata[1]

\* C3, amended: every returned record has exactly the fields success,
\* raw_audio, refined_audio, metadata and error (the two paths are stored under
\* raw_audio and refined_audio), and on success metadata has the nine listed
\* fields.
C3_Fields ==
    Returned =>
        /\ DOMAIN result[1] = {"success", "raw_audio", "refined_audio", "metadata", "error"}
        /\ result[1].success =>
              /\ result[1].metadata # None
              /\ MetadataFields \subseteq DOMAIN result[1].metadata[1]

C3_Witness == Done /\ Succeeded

\* C4: for a text of trimmed length 1..5000, when the configuration and the
\* API key load, the service accepts the key and returns audio bytes, and
\* decode and encode succeed, the call returns success = true, and the raw
\* file and the refined file named in the result were both written in this
\* invocation, the raw file first.
C4_HappyPath ==
    ( /\ Done
      /\ ValidText(text)
      /\ config # None /\ api_key # None
      /\ \E i \in NetworkCalls : log[i].op = "voices.get_all"
      /\ audio_bytes # None
      /\ loaded # None
      /\ save_result # None /\ save_result[1].success )
    => /\ Succeeded
       /\ result[1].raw_audio # None /\ result[1].refined_audio # None
       /\ WriteIndex(result[1].raw_audio[1]) > 0
       /\ WriteIndex(result[1].raw_audio[1]) < WriteIndex(result[1].refined_audio[1])
       /\ Exists(files, result[1].raw_audio[1])
       /\ Exists(files, result[1].refined_audio[1])

\* quick_generate (output_name defaulted) succeeded on a 5000-character text
C4_Witness ==
    /\ Done /\ Succeeded
    /\ text.core = 5000
    /\ output_name = Some("audio_20261105_112300")
    /\ Exists(files, "raw_audio/audio_20261105_112300.mp3")
    /\ Exists(files, "refined_audio/audio_20261105_112300.wav")

\* C5 as stated: when the internal processing of an enabled stage fails, the
\* stage returns the buffer it was given, the remaining stages and the save
\* still run, and process_pipeline returns success = true with error = None.
C5_AsStated ==
    /\ \A i \in StageEvents : log[i].failed => log[i].output = log[i].input
    /\ (degraded # {} /\ refine_result # None) =>
          /\ RefinerOps = << "load_audio", "reduce_noise", "normalize_volume",
                             "enhance_voice", "save_refined" >>
          /\ refine_result[1].success
          /\ refine_result[1].error = None

\* C5, amended: when the internal processing of an enabled stage fails, the
\* stage returns the buffer it was given, the remaining stages and the save
\* still run, and process_pipeline returns success = true with error = None
\* whenever save_refined succeeds; when save_refined fails process_pipeline
\* returns save_refined's failure record, which carries the save error only.
C5_StageFailureAbsorbed ==
    /\ \A i \in StageEvents : log[i].failed => log[i].output = log[i].input
    /\ (degraded # {} /\ refine_result # None) =>
          /\ RefinerOps = << "load_audio", "reduce_noise", "normalize_volume",
                             "enhance_voice", "save_refined" >>
          /\ save_result # None
          /\ save_result[1].success =>
                refine_result[1].success /\ refine_result[1].error = None
          /\ ~save_result[1].success => refine_result = save_result

\* normalization raised on a non-silent buffer and the pipeline still succeeded
C5_Witness ==
    /\ "normalize_volume" \in degraded
    /\ \E i \in StageEvents :
          log[i].op = "normalize_volume" /\ log[i].failed /\ SumSq(log[i].input) > 0
    /\ refine_result # None /\ refine_result[1].success

AllStagesDisabled(c) ==
    ~c.noise_reduction /\ ~c.normalization /\ ~c.compression /\ ~c.eq_boost

\* C6: with noise reduction, normalization, compression and eq_boost all
\* disabled, the buffer handed to save_refined is, sample for sample, the
\* buffer load_audio returned.
C6_DisabledStagesIdentity ==
    \A i \in SaveEvents :
        AllStagesDisabled(cfg) => log[i].audio_data = loaded[1].audio_array

\* a non-silent two-sample buffer went through the disabled stages
C6_Witness ==
    /\ config # None /\ AllStagesDisabled(cfg)
    /\ \E i \in SaveEvents :
          /\ Len(log[i].audio_data) >= 2
          /\ SumSq(log[i].audio_data) > 0

-----------------------------------------------------------------------------
(* The signal functions on their own (specification FnSpec): one call of     *)
(* normalize_volume, enhance_voice or save_refined on an input drawn from    *)
(* the sets below.                                                           *)

FnSamples == {-1000, -400, 0, 250, 1000}
FnBuffers == SeqsUpTo(FnSamples, MaxFnLen) \ {<<>>}
\* values around the compressor's threshold
EnhanceSamples == {-1000, -301, -300, 0, 300, 304, 1000}
EnhanceBuffers == SeqsUpTo(EnhanceSamples, MaxFnLen) \ {<<>>}
Rates == {8000, 16000, 22050, 44100, 48000}
\* a buffer of n samples
Tone(n) == [i \in 1..n |-> 250]

NormalizeCalls ==
    [ fn : {"normalize_volume"}, audio : FnBuffers,
      cfg : [normalization : BOOLEAN, target_db : {-18, -6, -3}],
      exc : BOOLEAN ]
EnhanceCalls ==
    [ fn : {"enhance_voice"}, audio : EnhanceBuffers,
      cfg : [compression : BOOLEAN, eq_boost : BOOLEAN],
      exc : BOOLEAN ]
SaveCalls ==
    [ fn : {"save_refined"}, audio : { Tone(n) : n \in 0..MaxResampleLen },
      sample_rate : Rates,
      cfg : [sample_rate : Rates, bit_depth : {16, 24, 32}] ]

FnInit ==
    /\ pc = "call"
    /\ fin \in { Some(c) : c \in NormalizeCalls \cup EnhanceCalls \cup SaveCalls }
    /\ fout = None
    /\ text = [kind |-> "none"]
    /\ voice_id = None
    /\ output_name = None
    /\ config = None
    /\ api_key = None
    /\ files = {}
    /\ log = <<>>
    /\ audio_bytes = None
    /\ tts_result = None
    /\ loaded = None
    /\ audio_data = <<>>
    /\ degraded = {}
    /\ save_result = None
    /\ refine_result = None
    /\ result = None
    /\ escaped = FALSE
    /\ install = PathInstall
    /\ env_path = InitialPath
    /\ converter = DefaultConverter
    /\ clock = 1
    /\ calls = << >>

call == fin[1]

CallNormalizeVolume ==
    /\ pc = "call" /\ call.fn = "normalize_volume"
    /\ fout' = Some(normalize_volume(call.audio, call.cfg, call.exc))
    /\ pc' = "called"
    /\ UNCHANGED << text, voice_id, output_name, config, api_key, files, log,
                    audio_bytes, tts_result, loaded, audio_data, degraded,
                    save_result, refine_result, result, escaped, fin,
                    envVars, processVars >>

CallEnhanceVoice ==
    /\ pc = "call" /\ call.fn = "enhance_voice"
    /\ fout' = Some(enhance_voice(call.audio, call.cfg, call.exc))
    /\ pc' = "called"
    /\ UNCHANGED << text, voice_id, output_name, config, api_key, files, log,
                    audio_bytes, tts_result, loaded, audio_data, degraded,
                    save_result, refine_result, result, escaped, fin,
                    envVars, processVars >>

CallSaveRefined ==
    /\ pc = "call" /\ call.fn = "save_refined"
    /\ \E io \in SaveOutcomes(call.audio, call.sample_rate, call.cfg.sample_rate) :
          LET s == save_refined(call.audio, call.sample_rate, "refined_audio/out.wav",
                                call.cfg, io) IN
          /\ fout' = Some(s)
          /\ files' = IF s.written # None
                      THEN WriteFile(files, "refined_audio/out.wav", s.written[1])
                      ELSE files
    /\ pc' = "called"
    /\ UNCHANGED << text, voice_id, output_name, config, api_key, log,
                    audio_bytes, tts_result, loaded, audio_data, degraded,
                    save_result, refine_result, result, escaped, fin,
                    envVars, processVars >>

FnNext ==
    \/ CallNormalizeVolume
    \/ CallEnhanceVoice
    \/ CallSaveRefined

FnSpec == FnInit /\ [][FnNext]_vars

-----------------------------------------------------------------------------
(* Properties of the signal functions (specification FnSpec). *)

Called(fn) == pc = "called" /\ call.fn = fn

\* normalize_volume ran its processing to the end on a non-silent buffer
Normalized ==
    /\ Called("normalize_volume")
    /\ call.cfg.normalization
    /\ SumSq(call.audio) > 0
    /\ ~call.exc

\* an RMS level (in units of 1/(10 * Scale)) is within 0.5 dB of target_db:
\* 10 ** (-0.5 / 20) = 0.94406 and 10 ** (0.5 / 20) = 1.05925
WithinHalfDb(rms10, target_db) ==
    /\ 100000 * rms10 >= 94406 * (10 * DbToLin(target_db))
    /\ 100000 * rms10 <= 105925 * (10 * DbToLin(target_db))

\* C7 as stated: for a non-silent input with normalization enabled, the RMS
\* level of the buffer normalize_volume returns is within 0.5 dB of target_db.
C7_AsStated ==
    Normalized => WithinHalfDb(Rms10(fout[1]), call.cfg.target_db)

\* C7, amended: for a non-silent input with normalization enabled (and no
\* exception inside the stage), the RMS level of the returned buffer is within
\* 0.5 dB of target_db when the peak of the gained buffer is at most 0.95;
\* when that peak exceeds 0.95 the gained buffer, whose RMS is within 0.5 dB of
\* target_db, is scaled by 0.95/peak, so that the returned RMS is the gained
\* RMS times 0.95/peak and lies below target_db by 20*log10(peak/0.95) dB.
C7_RmsAtTargetUnlessClipped ==
    Normalized =>
        LET gained == ApplyGain(call.audio, call.cfg.target_db)
            peak == MaxAbs(gained)
            a == Rms10(fout[1]) * peak
            b == Rms10(gained) * Ceiling
        IN  /\ WithinHalfDb(Rms10(gained), call.cfg.target_db)
            /\ IF peak <= Ceiling
               THEN WithinHalfDb(Rms10(fout[1]), call.cfg.target_db)
               ELSE /\ 100 * Abs(a - b) <= b
                    /\ 100000 * Rms10(fout[1]) <= 105925 * (10 * DbToLin(call.cfg.target_db))

\* a buffer was brought to the target level without reaching the ceiling
C7_Witness ==
    /\ Normalized
    /\ call.audio = << 1000, -400, 250 >>
    /\ call.cfg.target_db = -18
    /\ fout[1] # call.audio
    /\ MaxAbs(fout[1]) < Ceiling
    /\ WithinHalfDb(Rms10(fout[1]), -18)

\* C8: for a non-silent input with normalization enabled, the peak absolute
\* sample of the returned buffer never exceeds 0.95; when the peak of the
\* gained buffer exceeds 0.95 every sample is scaled by the same factor
\* 0.95/peak, so that the peak is exactly 0.95.
C8_PeakCeiling ==
    Normalized =>
        LET gained == ApplyGain(call.audio, call.cfg.target_db)
            peak == MaxAbs(gained)
            out == fout[1]
        IN  /\ MaxAbs(out) <= Ceiling
            /\ Len(out) = Len(call.audio)
            /\ peak > Ceiling =>
                  /\ MaxAbs(out) = Ceiling
                  /\ \A i \in 1..Len(out) :
                        /\ out[i] # 0 => Sign(out[i]) = Sign(gained[i])
                        /\ Abs(gained[i]) * Ceiling - Abs(out[i]) * peak \in 0..(peak - 1)

\* the gained peak was above the ceiling and a second, smaller sample was
\* scaled with it
C8_Witness ==
    /\ Normalized
    /\ call.audio = << 1000, -400, 0 >>
    /\ call.cfg.target_db = -3
    /\ MaxAbs(ApplyGain(call.audio, -3)) > Ceiling
    /\ MaxAbs(fout[1]) = Ceiling
    /\ Abs(fout[1][2]) < Abs(ApplyGain(call.audio, -3)[2])

\* enhance_voice ran with compression enabled
Compressed ==
    /\ Called("enhance_voice")
    /\ call.cfg.compression
    /\ ~call.exc

\* C9: with compression enabled (threshold 0.3, ratio 3.0), a sample x with
\* |x| > threshold comes out with the sign of x and the magnitude
\* threshold + (|x| - threshold) / ratio, hence no larger than |x|; a sample
\* with |x| <= threshold comes out equal to x.
C9_Compression ==
    Compressed =>
        /\ Len(fout[1]) = Len(call.audio)
        /\ \A i \in 1..Len(call.audio) :
              LET x == call.audio[i]
                  y == fout[1][i]
              IN  IF 10 * Abs(x) > 3 * Scale
                  THEN /\ Sign(y) = Sign(x)
                       /\ 10 * Abs(y) >= 3 * Scale
                       /\ (10 * Abs(x) - 3 * Scale) - 3 * (10 * Abs(y) - 3 * Scale) \in 0..29
                       /\ Abs(y) <= Abs(x)
                  ELSE y = x

\* samples above, at and below the threshold, of both signs
C9_Witness ==
    /\ Compressed
    /\ call.audio = << -1000, 300, 304 >>
    /\ fout[1] = << -533, 300, 301 >>

\* save_refined resampled the buffer and wrote the file
Resampled ==
    /\ Called("save_refined")
    /\ fout[1].written # None
    /\ call.sample_rate # call.cfg.sample_rate

\* round(n / d), halves to the even neighbour
Round(n, d) ==
    LET q == n \div d
        r == n % d
    IN  IF 2 * r < d THEN q
        ELSE IF 2 * r > d THEN q + 1
        ELSE IF q % 2 = 0 THEN q ELSE q + 1

\* C10 as stated: when the rates differ, the buffer save_refined writes has
\* exactly round(len * target_rate / source_rate) samples.
C10_AsStated ==
    Resampled =>
        fout[1].written[1].frames
            = Round(Len(call.audio) * call.cfg.sample_rate, call.sample_rate)

\* C10, amended: when the rates differ, the buffer save_refined writes has
\* exactly floor(len * target_rate / source_rate) samples (the fraction is
\* dropped), which is the rounded value or one less.
C10_TruncatedLength ==
    Resampled =>
        LET frames == fout[1].written[1].frames
            n == Len(call.audio) * call.cfg.sample_rate
        IN  /\ frames * call.sample_rate <= n
            /\ n < (frames + 1) * call.sample_rate
            /\ Round(n, call.sample_rate) - frames \in {0, 1}
            /\ fout[1].written[1].sample_rate = call.cfg.sample_rate

\* 5 samples at 44100 Hz written at 16000 Hz: 1.81 becomes 1 sample
C10_Witness ==
    /\ Resampled
    /\ Len(call.audio) = 5
    /\ call.sample_rate = 44100 /\ call.cfg.sample_rate = 16000
    /\ fout[1].written[1].frames = 1

-----------------------------------------------------------------------------
(* Properties of the pipeline, continued (specification Spec). *)

\* the normalize_volume calls of this run that were given a silent buffer with
\* normalization enabled
SilentNormalizations ==
    { i \in StageEvents :
        /\ log[i].op = "normalize_volume"
        /\ cfg.normalization
        /\ SumSq(log[i].input) = 0 }

\* C11 as stated: given an all-zero buffer with normalization enabled,
\* normalize_volume returns the buffer unchanged (nothing is raised, nothing is
\* divided by zero) and process_pipeline returns success = true.
C11_AsStated ==
    \A i \in SilentNormalizations :
        /\ log[i].output = log[i].input
        /\ refine_result # None => refine_result[1].success

\* C11, amended: given an all-zero buffer with normalization enabled,
\* normalize_volume returns the buffer unchanged (nothing is raised, nothing is
\* divided by zero), enhance_voice and save_refined still run, and
\* process_pipeline returns success = true whenever save_refined succeeds.
C11_SilentUnchanged ==
    \A i \in SilentNormalizations :
        /\ log[i].output = log[i].input
        /\ refine_result # None =>
              /\ save_result # None
              /\ refine_result[1].success = save_result[1].success

\* a silent two-sample buffer was normalized, without an exception, and the
\* pipeline succeeded
C11_Witness ==
    /\ \E i \in SilentNormalizations :
          /\ Len(log[i].input) = 2
          /\ ~log[i].failed
          /\ log[i].output = << 0, 0 >>
    /\ refine_result # None /\ refine_result[1].success

\* the refined file as it is on disk
RefinedFile == CHOOSE f \in files : f.path = refined_audio_path

\* C12: whenever process_pipeline succeeds, the refined file was written at
\* the configured output sample rate with the PCM subtype of the configured bit
\* depth (16: PCM_16, 24: PCM_24, 32: PCM_32), and the sample_rate of the
\* returned metadata is the configured output sample rate, whatever rate the
\* input was decoded at.
C12_OutputFormat ==
    (refine_result # None /\ refine_result[1].success) =>
        /\ Exists(files, refined_audio_path)
        /\ RefinedFile.content.kind = "wav"
        /\ RefinedFile.content.sample_rate = cfg.sample_rate
        /\ RefinedFile.content.subtype =
              CASE cfg.bit_depth = 16 -> "PCM_16"
                [] cfg.bit_depth = 24 -> "PCM_24"
                [] cfg.bit_depth = 32 -> "PCM_32"
        /\ refine_result[1].metadata[1].sample_rate = cfg.sample_rate

\* audio decoded at 22050 Hz was written as a 16000 Hz, 24-bit file
C12_Witness ==
    /\ refine_result # None /\ refine_result[1].success
    /\ sample_rate = 22050
    /\ cfg.sample_rate = 16000 /\ cfg.bit_depth = 24
    /\ RefinedFile.content.resampled
    /\ RefinedFile.content.frames >= 1

PipelineOrder ==
    << "load_audio", "reduce_noise", "normalize_volume", "enhance_voice", "save_refined" >>
IsPrefix(p, q) == Len(p) <= Len(q) /\ \A i \in 1..Len(p) : p[i] = q[i]

\* C14: the operations of process_pipeline run at most once each and in the
\* order load_audio, reduce_noise, normalize_volume, enhance_voice,
\* save_refined; a successful run has run all five; the three stages work on
\* the buffer at the rate it was decoded at (its length never changes before
\* the save), and resampling happens in save_refined only, exactly when the
\* decoded rate differs from the configured one.
C14_StageOrder ==
    /\ IsPrefix(RefinerOps, PipelineOrder)
    /\ (refine_result # None /\ refine_result[1].success) => RefinerOps = PipelineOrder
    /\ \A i \in StageEvents :
          /\ Len(log[i].input) = Len(loaded[1].audio_array)
          /\ Len(log[i].output) = Len(loaded[1].audio_array)
    /\ \A i \in SaveEvents :
          /\ Len(log[i].audio_data) = Len(loaded[1].audio_array)
          /\ log[i].sample_rate = loaded[1].sample_rate
          /\ Cardinality(StageEvents) = 3
          /\ \A j \in StageEvents : j < i
    /\ (save_result # None /\ save_result[1].success) =>
          /\ RefinedFile.content.resampled = (loaded[1].sample_rate # cfg.sample_rate)
          /\ RefinedFile.content.source = audio_data

\* a successful run with every stage enabled, decoded at 44100 Hz and saved at
\* 16000 Hz
C14_Witness ==
    /\ refine_result # None /\ refine_result[1].success
    /\ cfg.noise_reduction /\ cfg.normalization /\ cfg.compression
    /\ degraded = {}
    /\ sample_rate = 44100 /\ cfg.sample_rate = 16000
    /\ RefinerOps = PipelineOrder

\* process_pipeline returned a failure record
RefineFailed == refine_result # None /\ ~refine_result[1].success

\* C15: process_pipeline never raises, and every failure record it returns
\* (decode failure, encode or write failure) has the same shape: success =
\* false, refined_audio_path = None, metadata = None and a non-empty error.
C15_UniformFailure ==
    /\ (RefinerOps # << >> /\ pc \in {"return", "done"}) => refine_result # None
    /\ RefineFailed =>
          /\ {"refined_audio_path", "metadata", "error"} \subseteq DOMAIN refine_result[1]
          /\ refine_result[1].refined_audio_path = None
          /\ refine_result[1].metadata = None
          /\ refine_result[1].error # None
          /\ Len(refine_result[1].error[1]) > 0

\* validate_api_key returned False in this invocation
KeyRejected == \E i \in 1..Len(log) : log[i].op = "voices.get_all" /\ ~log[i].valid
IsWrite(e) == e.op = "write"

\* C16: when validate_api_key returns False the invocation ends at once with
\* success = false: no synthesis request is made, neither the raw nor the
\* refined file is written, and no operation of the refiner runs.
C16_RejectedKeyAborts ==
    KeyRejected =>
        /\ Done /\ Returned /\ ~result[1].success
        /\ \A i \in 1..Len(log) : log[i].op # "text_to_speech.convert"
        /\ SelectSeq(log, IsWrite) = << >>
        /\ files = {}
        /\ tts_result = None /\ audio_bytes = None
        /\ RefinerOps = << >>
        /\ refine_result = None

\* a valid text with a key the service rejects
C16_Witness ==
    /\ KeyRejected
    /\ ValidText(text) /\ api_key # None
    /\ result = Some(FailureRecord("Invalid ElevenLabs API key"))

ConvertCalls == { i \in 1..Len(log) : log[i].op = "text_to_speech.convert" }
\* generate_audio returned its failure record
SynthesisFailed == tts_result = Some(GenerateFailure("status_code: 401"))

\* C17: an invocation makes at most one synthesis request; when that request
\* fails it is not made again, no raw file is written, no operation of the
\* refiner runs, and the invocation ends with success = false.
C17_SynthesisOnce ==
    /\ Cardinality(ConvertCalls) <= 1
    /\ SynthesisFailed =>
          /\ Cardinality(ConvertCalls) = 1
          /\ Done /\ Returned /\ ~result[1].success
          /\ audio_bytes = None
          /\ SelectSeq(log, IsWrite) = << >>
          /\ files = {}
          /\ RefinerOps = << >>
          /\ refine_result = None

\* the service accepted the key and then refused the synthesis request
C17_Witness ==
    /\ SynthesisFailed
    /\ \E i \in 1..Len(log) : log[i].op = "voices.get_all" /\ log[i].valid
    /\ result = Some(FailureRecord("TTS generation failed: Error generating audio: status_code: 401"))

RefineSucceeded == refine_result # None /\ refine_result[1].success
\* the fields of the refiner's metadata that are not processing times
RefineDataFields == {"input_duration", "output_duration", "sample_rate", "file_size"}

-----------------------------------------------------------------------------
(* Several invocations in one process (specification ProcessSpec): two       *)
(* callers run generate_refined_audio concurrently.  An invocation is cut    *)
(* at the points where it reads or writes what it shares with the other:     *)
(* the clock, the file system, PATH and the converter.                       *)

Invocations == {1, 2}
\* the name each caller passes when it passes one
CallerNames == << "ad_one", "ad_two" >>
\* datetime.now().strftime('%Y%m%d_%H%M%S') at each second of the clock
Stamps == << "20261105_112300", "20261105_112301" >>

ProcessInit ==
    /\ pc = "process"
    /\ calls \in [ Invocations ->
                     [ pc : {"start"},
                       output_name : {None} \cup { Some(CallerNames[j]) : j \in Invocations },
                       raw : {None}, refined : {None}, success : {FALSE} ] ]
    \* a caller that names its output uses a name of its own
    /\ \A i \in Invocations : calls[i].output_name \in {None, Some(CallerNames[i])}
    /\ clock = 1
    /\ install \in Installations
    /\ env_path = InitialPath
    /\ converter = DefaultConverter
    /\ files = {}
    /\ log = << >>
    /\ text = [kind |-> "none"]
    /\ voice_id = None
    /\ output_name = None
    /\ config = None
    /\ api_key = None
    /\ audio_bytes = None
    /\ tts_result = None
    /\ loaded = None
    /\ audio_data = << >>
    /\ degraded = {}
    /\ save_result = None
    /\ refine_result = None
    /\ result = None
    /\ escaped = FALSE
    /\ fin = None
    /\ fout = None

\* the variables of the single invocation, idle in this specification
invocationVars ==
    << pc, text, voice_id, output_name, config, api_key, audio_bytes, tts_result,
       loaded, audio_data, degraded, save_result, refine_result, result, escaped,
       fin, fout >>

\* invocation i moves to position p
Goto(i, p) == calls' = [calls EXCEPT ![i].pc = p]
\* invocation i returns the failure record of __init__.py lines 143-153
Fail(i) == Goto(i, "done")

\* a second passes
Tick ==
    /\ clock < Len(Stamps)
    /\ clock' = clock + 1
    /\ UNCHANGED << invocationVars, envVars, files, log, calls >>

\* __init__.py lines 45-79: configuration, validation and the two paths
Begin(i) ==
    /\ calls[i].pc = "start"
    /\ \/ LET name == IF calls[i].output_name = None
                       THEN "audio_" \o Stamps[clock]
                       ELSE calls[i].output_name[1]
          IN  calls' = [calls EXCEPT ![i].pc = "synthesize",
                                     ![i].output_name = Some(name),
                                     ![i].raw = Some(RawPath(config, name)),
                                     ![i].refined = Some(RefinedPath(config, name))]
       \/ Fail(i)
    /\ UNCHANGED << invocationVars, envVars, files, log, clock >>

\* __init__.py lines 83-97: the key is validated, the audio generated and the
\* raw file written (tts_service.py lines 158-164)
Synthesize(i) ==
    /\ calls[i].pc = "synthesize"
    /\ \/ /\ files' = WriteFile(files, calls[i].raw[1], [kind |-> "mp3", by |-> i])
          /\ log' = Append(log, [op |-> "write", path |-> calls[i].raw[1], by |-> i])
          /\ Goto(i, "refiner_init")
       \/ /\ Fail(i)
          /\ UNCHANGED << files, log >>
    /\ UNCHANGED << invocationVars, envVars, clock >>

\* __init__.py line 103: AudioRefiner(config)
Construct(i) ==
    /\ calls[i].pc = "refiner_init"
    /\ \/ /\ LET e == configure_ffmpeg(install, env_path, converter) IN
                env_path' = e.PATH /\ converter' = e.converter
          /\ Goto(i, "load_audio")
       \/ /\ Fail(i)
          /\ UNCHANGED << env_path, converter >>
    /\ UNCHANGED << invocationVars, install, files, log, clock >>

\* audio_refiner.py lines 320-331: the raw file is decoded and the stages run
Refine(i) ==
    /\ calls[i].pc = "load_audio"
    /\ \/ Goto(i, "save_refined")
       \/ Fail(i)
    /\ UNCHANGED << invocationVars, envVars, files, log, clock >>

\* audio_refiner.py lines 334-354 and __init__.py lines 110-141: the refined
\* file is written and the invocation returns
Save(i) ==
    /\ calls[i].pc = "save_refined"
    /\ \/ /\ files' = WriteFile(files, calls[i].refined[1], [kind |-> "wav", by |-> i])
          /\ log' = Append(log, [op |-> "write", path |-> calls[i].refined[1], by |-> i])
          /\ calls' = [calls EXCEPT ![i].pc = "done", ![i].success = TRUE]
       \/ /\ Fail(i)
          /\ UNCHANGED << files, log >>
    /\ UNCHANGED << invocationVars, envVars, clock >>

ProcessNext ==
    \/ Tick
    \/ \E i \in Invocations : Begin(i)
    \/ \E i \in Invocations : Synthesize(i)
    \/ \E i \in Invocations : Construct(i)
    \/ \E i \in Invocations : Refine(i)
    \/ \E i \in Invocations : Save(i)

ProcessSpec == ProcessInit /\ [][ProcessNext]_vars

\* the invocations that wrote path
Writers(path) == { log[k].by : k \in { j \in 1..Len(log) : log[j].path = path } }

\* C13: whatever the interleaving of two concurrent invocations, and also
\* when both leave output_name at its default, each writes its own raw and
\* refined paths only and no path is written by both.
C13_DisjointPaths ==
    /\ \A k \in 1..Len(log) :
          log[k].path \in { calls[log[k].by].raw[1], calls[log[k].by].refined[1] }
    /\ \A k \in 1..Len(log) : Cardinality(Writers(log[k].path)) <= 1

\* C19: after any number of invocations, each constructing an AudioRefiner,
\* PATH and the audio library's converter are what they were before the
\* first invocation.
C19_EnvironmentUntouched ==
    /\ env_path = InitialPath
    /\ converter = DefaultConverter

====
